---- MODULE Spec2Model ----
(***************************************************************************)
(* Portfolio dashboard: the portfolio_holdings table with its CHECK        *)
(* constraints and row-level policies, the SECURITY DEFINER functions, and *)
(* the client-side PortfolioService that aggregates the fetched holdings.  *)
(*                                                                         *)
(* Conventions.                                                            *)
(*  - A JavaScript string is a sequence of UTF-16 code units (naturals).   *)
(*  - Money is counted in hundredths (decimal(10,2)), so sums are exact.   *)
(*  - A quotient is kept as an exact fraction in lowest terms.             *)
(*  - An optional value (undefined / null / SQL NULL) is the empty tuple   *)
(*    when absent and the one-element tuple of the value when present.     *)
(***************************************************************************)
EXTENDS Integers, Sequences, FiniteSets, TLC

\* ------------------------------------------------------------------ bounds
MaxRows == 3

\* ------------------------------------------------------- optional values
None == <<>>
Some(x) == <<x>>

\* ------------------------------------------------------------- strings
SP == 32
EmptyString == <<>>
StrQ1 == <<81, 49>>
StrQ2 == <<81, 50>>
Strq1 == <<113, 49>>

\* Number.prototype.toString for a non-negative integer, as the template
\* literal `${holding.year}` applies it.
RECURSIVE NumberToString(_)
NumberToString(n) ==
  IF n < 10 THEN <<48 + n>>
  ELSE Append(NumberToString(n \div 10), 48 + (n % 10))

\* `${holding.quarter} ${holding.year}`
QuarterKey(quarter, year) == quarter \o <<SP>> \o NumberToString(year)

\* Three-way comparison of two sequences of numbers, element by element,
\* a proper prefix being smaller.
RECURSIVE SeqCompare(_, _)
SeqCompare(a, b) ==
  IF a = <<>> /\ b = <<>> THEN 0
  ELSE IF a = <<>> THEN -1
  ELSE IF b = <<>> THEN 1
  ELSE IF Head(a) < Head(b) THEN -1
  ELSE IF Head(a) > Head(b) THEN 1
  ELSE SeqCompare(Tail(a), Tail(b))

\* The default comparison of Array.prototype.sort(): UTF-16 code units.
CodeUnitCompare(a, b) == SeqCompare(a, b)

\* String.prototype.localeCompare under the default (root) collation, for
\* space, digits and ASCII letters: the primary level ignores case, and
\* between strings equal at the primary level the first case difference
\* decides, lower case before upper case.
PrimaryWeight(c) == IF c >= 97 /\ c =< 122 THEN c - 32 ELSE c
TertiaryWeight(c) == IF c >= 65 /\ c =< 90 THEN 1 ELSE 0
LocaleCompare(a, b) ==
  LET p == SeqCompare([i \in 1..Len(a) |-> PrimaryWeight(a[i])],
                      [i \in 1..Len(b) |-> PrimaryWeight(b[i])])
  IN IF p # 0 THEN p
     ELSE SeqCompare([i \in 1..Len(a) |-> TertiaryWeight(a[i])],
                     [i \in 1..Len(b) |-> TertiaryWeight(b[i])])

\* ------------------------------------------------------------ fractions
RECURSIVE Gcd(_, _)
Gcd(a, b) == IF b = 0 THEN a ELSE Gcd(b, a % b)
Abs(x) == IF x < 0 THEN -x ELSE x
\* n / d for d > 0, in lowest terms
Frac(n, d) ==
  LET g == Gcd(Abs(n), d)
  IN [num |-> n \div g, den |-> d \div g]
Zero == [num |-> 0, den |-> 1]

\* ------------------------------------------------------------- the table
Users == {"u1", "u2"}
Quarters == {StrQ1, StrQ2, Strq1}
Years == {2023, 2024}
ShareValues == {1, 2}
PriceValues == {1, 3}
TimeValues == {1, 2}

\* Mutant: the constraint on shares written as shares >= 0
CheckConstraintsSharesNotNegative(row) ==
  /\ row.shares >= 0
  /\ row.purchase_price > 0
  /\ row.current_price > 0
  /\ row.year >= 2020

\* CREATE TABLE portfolio_holdings: the CHECK constraints of a row
CheckConstraints(row) ==
  /\ row.shares > 0
  /\ row.purchase_price > 0
  /\ row.current_price > 0
  /\ row.year >= 2020

\* All tables of at most k rows drawn from a pool of rows.
RECURSIVE TablesUpTo(_, _)
TablesUpTo(pool, k) ==
  IF k = 0 THEN {{}}
  ELSE LET smaller == TablesUpTo(pool, k - 1)
       IN smaller \cup {T \cup {r} : T \in smaller, r \in pool}

\* All orders in which the rows of a set can be listed.
RECURSIVE SeqsOf(_)
SeqsOf(S) ==
  IF S = {} THEN {<<>>}
  ELSE UNION {{<<x>> \o s : s \in SeqsOf(S \ {x})} : x \in S}

RECURSIVE Reverse(_)
Reverse(s) == IF s = <<>> THEN <<>> ELSE Append(Reverse(Tail(s)), Head(s))

\* ------------------------------------------------- the remote (PostgREST)
Outcomes == {"ok", "error", "null"}

\* A query as the client builds it: .eq('user_id', ..), optional
\* .eq('quarter', ..) and .eq('year', ..), optional .order('created_at', desc)
Matches(row, query) ==
  /\ row.user_id = query.user_id
  /\ (query.quarter # None => row.quarter = query.quarter[1])
  /\ (query.year # None => row.year = query.year[1])

OrderedDesc(s) == \A i \in 1..(Len(s) - 1) : s[i].created_at >= s[i + 1].created_at

\* The row lists the remote may answer with: the matching rows, in the
\* requested order when one was requested (ties in any order), else in any
\* order.
QueryResults(tbl, query) ==
  LET all == SeqsOf({row \in tbl : Matches(row, query)})
  IN IF query.ordered THEN {s \in all : OrderedDesc(s)} ELSE all

\* The { data, error } the awaited query resolves to.
Reply(outcome, rows) ==
  [error |-> outcome = "error",
   data |-> IF outcome = "ok" THEN Some(rows) ELSE None]

\* ------------------------------------------------------ PortfolioService
NaN == -1
Rejected == [status |-> "rejected", value |-> None]
Resolved(v) == [status |-> "resolved", value |-> v]

\* if (quarter) / if (year): JavaScript truthiness of the optional argument
QuarterGiven(quarter) == quarter # None /\ quarter[1] # EmptyString
YearGiven(year) == year # None /\ year[1] # 0 /\ year[1] # NaN

\* Mutant: the year filter is not added once a quarter filter was
UserPortfolioQueryElseYear(userId, quarter, year) ==
  [user_id |-> userId,
   quarter |-> IF QuarterGiven(quarter) THEN quarter ELSE None,
   year |-> IF YearGiven(year) /\ ~QuarterGiven(quarter) THEN year ELSE None,
   ordered |-> TRUE]

\* The query getUserPortfolio builds from its arguments.
UserPortfolioQuery(userId, quarter, year) ==
  [user_id |-> userId,
   quarter |-> IF QuarterGiven(quarter) THEN quarter ELSE None,
   year |-> IF YearGiven(year) THEN year ELSE None,
   ordered |-> TRUE]

\* The query of getQuarterlyPerformance and of getAvailableQuarters.
UserRowsQuery(userId) ==
  [user_id |-> userId, quarter |-> None, year |-> None, ordered |-> FALSE]

\* Mutant: a reply without rows is taken for a failure
getUserPortfolioRejectingEmpty(reply) ==
  IF reply.error \/ reply.data = None \/ reply.data = Some(<<>>) THEN Rejected
  ELSE Resolved(reply.data[1])

\* Mutant: the error of the reply is swallowed and an empty list returned
getUserPortfolioSwallowed(reply) ==
  Resolved(IF reply.data = None THEN <<>> ELSE reply.data[1])

\* getUserPortfolio, given what the awaited query resolved to
getUserPortfolio(reply) ==
  IF reply.error THEN Rejected
  ELSE Resolved(IF reply.data = None THEN <<>> ELSE reply.data[1])

\* Mutant: the quotient is not scaled to a percentage
GainLossRatio(value, cost) ==
  IF cost > 0 THEN Frac(value - cost, cost) ELSE Zero

\* gain/loss percent: cost > 0 ? ((value - cost) / cost) * 100 : 0
GainLossPercent(value, cost) ==
  IF cost > 0 THEN Frac((value - cost) * 100, cost) ELSE Zero

\* Mutant: the current value is taken from the purchase price
RECURSIVE SumHoldingsAtCost(_, _)
SumHoldingsAtCost(holdings, acc) ==
  IF holdings = <<>> THEN acc
  ELSE LET holding == Head(holdings)
           currentValue == holding.shares * holding.purchase_price
           costBasis == holding.shares * holding.purchase_price
       IN SumHoldingsAtCost(Tail(holdings),
                            [totalValue |-> acc.totalValue + currentValue,
                             totalCost |-> acc.totalCost + costBasis,
                             totalShares |-> acc.totalShares + holding.shares])

\* holdings.forEach(...) of getPortfolioSummary: the three running totals
RECURSIVE SumHoldings(_, _)
SumHoldings(holdings, acc) ==
  IF holdings = <<>> THEN acc
  ELSE LET holding == Head(holdings)
           currentValue == holding.shares * holding.current_price
           costBasis == holding.shares * holding.purchase_price
       IN SumHoldings(Tail(holdings),
                      [totalValue |-> acc.totalValue + currentValue,
                       totalCost |-> acc.totalCost + costBasis,
                       totalShares |-> acc.totalShares + holding.shares])

\* quarterMap: a Map kept as its entries in insertion order
MapIndex(entries, key) ==
  IF \E i \in 1..Len(entries) : entries[i].quarter = key
  THEN CHOOSE i \in 1..Len(entries) : entries[i].quarter = key
  ELSE 0

RECURSIVE BuildQuarterMap(_, _)
BuildQuarterMap(data, entries) ==
  IF data = <<>> THEN entries
  ELSE LET holding == Head(data)
           quarterKey == QuarterKey(holding.quarter, holding.year)
           currentValue == holding.shares * holding.current_price
           costBasis == holding.shares * holding.purchase_price
           i == MapIndex(entries, quarterKey)
           existing == IF i = 0 THEN [totalValue |-> 0, totalCost |-> 0]
                       ELSE entries[i]
           entry == [quarter |-> quarterKey,
                     totalValue |-> existing.totalValue + currentValue,
                     totalCost |-> existing.totalCost + costBasis]
       IN BuildQuarterMap(Tail(data),
                          IF i = 0 THEN Append(entries, entry)
                          ELSE [entries EXCEPT ![i] = entry])

\* the comparator (a, b) => b.quarter.localeCompare(a.quarter)
QuarterlyComparator(a, b) == LocaleCompare(b.quarter, a.quarter)

\* Array.prototype.sort with that comparator (a stable insertion sort)
RECURSIVE InsertEntry(_, _)
InsertEntry(sorted, x) ==
  IF sorted = <<>> THEN <<x>>
  ELSE LET last == sorted[Len(sorted)]
       IN IF QuarterlyComparator(last, x) =< 0 THEN Append(sorted, x)
          ELSE Append(InsertEntry(SubSeq(sorted, 1, Len(sorted) - 1), x), last)

RECURSIVE SortEntries(_, _)
SortEntries(todo, sorted) ==
  IF todo = <<>> THEN sorted
  ELSE SortEntries(Tail(todo), InsertEntry(sorted, Head(todo)))

\* getQuarterlyPerformance, given what the awaited query resolved to
getQuarterlyPerformance(reply) ==
  IF reply.error THEN Resolved(<<>>)
  ELSE LET data == IF reply.data = None THEN <<>> ELSE reply.data[1]
           quarterMap == BuildQuarterMap(data, <<>>)
           mapped == [i \in 1..Len(quarterMap) |->
                        [quarter |-> quarterMap[i].quarter,
                         performance |-> GainLossPercent(quarterMap[i].totalValue,
                                                         quarterMap[i].totalCost)]]
       IN Resolved(SortEntries(mapped, <<>>))

\* Mutant: every label is kept, repeated ones too
RECURSIVE KeepAll(_, _)
KeepAll(labels, seen) ==
  IF labels = <<>> THEN seen
  ELSE KeepAll(Tail(labels), Append(seen, Head(labels)))

\* [...new Set(labels)]: the first occurrence of each label, in order
RECURSIVE Dedupe(_, _)
Dedupe(labels, seen) ==
  IF labels = <<>> THEN seen
  ELSE Dedupe(Tail(labels),
              IF \E i \in 1..Len(seen) : seen[i] = Head(labels) THEN seen
              ELSE Append(seen, Head(labels)))

\* Array.prototype.sort() without comparator: ascending code units
RECURSIVE InsertString(_, _)
InsertString(sorted, x) ==
  IF sorted = <<>> THEN <<x>>
  ELSE LET last == sorted[Len(sorted)]
       IN IF CodeUnitCompare(last, x) =< 0 THEN Append(sorted, x)
          ELSE Append(InsertString(SubSeq(sorted, 1, Len(sorted) - 1), x), last)

RECURSIVE SortStrings(_, _)
SortStrings(todo, sorted) ==
  IF todo = <<>> THEN sorted
  ELSE SortStrings(Tail(todo), InsertString(sorted, Head(todo)))

\* Mutant: the catch of getAvailableQuarters rethrows
getAvailableQuartersRethrowing(reply) ==
  IF reply.error THEN Rejected
  ELSE LET data == IF reply.data = None THEN <<>> ELSE reply.data[1]
           labels == [i \in 1..Len(data) |-> QuarterKey(data[i].quarter, data[i].year)]
       IN Resolved(labels)

\* getAvailableQuarters, given what the awaited query resolved to
getAvailableQuarters(reply) ==
  IF reply.error THEN Resolved(<<>>)
  ELSE LET data == IF reply.data = None THEN <<>> ELSE reply.data[1]
           labels == [i \in 1..Len(data) |-> QuarterKey(data[i].quarter, data[i].year)]
           quarters == Dedupe(labels, <<>>)
       IN Resolved(Reverse(SortStrings(quarters, <<>>)))

\* getPortfolioSummary, given what its two awaited queries resolved to
\* (the second is only issued when the first did not fail)
getPortfolioSummary(reply1, reply2) ==
  LET fetched == getUserPortfolio(reply1)
  IN IF fetched.status = "rejected" THEN Rejected
     ELSE LET totals == SumHoldings(fetched.value,
                           [totalValue |-> 0, totalCost |-> 0, totalShares |-> 0])
              totalGainLoss == totals.totalValue - totals.totalCost
              totalGainLossPercent ==
                GainLossPercent(totals.totalValue, totals.totalCost)
              quarterlyData == getQuarterlyPerformance(reply2)
          IN IF quarterlyData.status = "rejected" THEN Rejected
             ELSE Resolved([totalValue |-> totals.totalValue,
                            totalGainLoss |-> totalGainLoss,
                            totalGainLossPercent |-> totalGainLossPercent,
                            totalShares |-> totals.totalShares,
                            quarterlyPerformance |-> quarterlyData.value])

\* ------------------------------------------------ the database functions
\* shares * current_price, shares * purchase_price, shares of one row
Measure(row, what) ==
  CASE what = "value" -> row.shares * row.current_price
    [] what = "cost" -> row.shares * row.purchase_price
    [] what = "shares" -> row.shares

\* the sum of a measure over a set of rows
RECURSIVE SumSet(_, _)
SumSet(rows, what) ==
  IF rows = {} THEN 0
  ELSE LET row == CHOOSE r \in rows : TRUE
       IN Measure(row, what) + SumSet(rows \ {row}, what)

\* SQL SUM(...): NULL over no rows
SqlSum(rows, what) == IF rows = {} THEN None ELSE Some(SumSet(rows, what))

\* get_portfolio_summary(target_user_id): the one row it returns
get_portfolio_summary(tbl, target_user_id) ==
  LET rows == {row \in tbl : row.user_id = target_user_id}
      value == SqlSum(rows, "value")
      cost == SqlSum(rows, "cost")
  IN [total_value |-> value,
      total_cost |-> cost,
      total_gain_loss |-> IF value = None \/ cost = None THEN None
                          ELSE Some(value[1] - cost[1]),
      total_gain_loss_percent |->
        IF cost # None /\ cost[1] > 0
        THEN Some(Frac((value[1] - cost[1]) * 100, cost[1]))
        ELSE Some(Zero),
      total_shares |-> SqlSum(rows, "shares")]

\* create_sample_portfolio_data: the VALUES list (shares, prices in
\* hundredths), the quarters and the years
SampleStocks ==
  << [shares |-> 50, purchase |-> 320000, current |-> 354230],
     [shares |-> 75, purchase |-> 218025, current |-> 245675],
     [shares |-> 100, purchase |-> 152040, current |-> 163485],
     [shares |-> 80, purchase |-> 129875, current |-> 145620],
     [shares |-> 120, purchase |-> 97860, current |-> 108945],
     [shares |-> 90, purchase |-> 108930, current |-> 123450],
     [shares |-> 60, purchase |-> 287640, current |-> 323450],
     [shares |-> 25, purchase |-> 2123460, current |-> 2345675],
     [shares |-> 40, purchase |-> 923480, current |-> 1045625],
     [shares |-> 70, purchase |-> 109850, current |-> 123475],
     [shares |-> 45, purchase |-> 215630, current |-> 238760],
     [shares |-> 35, purchase |-> 287690, current |-> 315680] >>
SampleQuarters == << <<81, 49>>, <<81, 50>>, <<81, 51>>, <<81, 52>> >>
SampleYears == <<2023, 2024>>

\* (random() * 20 - 10)::integer lies in -10..10, random() * 100 - 50 rounds
\* to -50.00..50.00 and random() * 200 - 100 to -100.00..100.00
ShareJitter == 10
PurchaseJitter == 5000
CurrentJitter == 10000

\* random(): a generator; its k-th draw of the three variations after the
\* seed is one of the 27 combinations of lowest, middle and highest value
Seeds == 0..26
Jitter(seed, k) ==
  LET c == (seed + k) % 27
  IN [shares |-> ((c % 3) - 1) * ShareJitter,
      purchase |-> (((c \div 3) % 3) - 1) * PurchaseJitter,
      current |-> ((c \div 9) - 1) * CurrentJitter]

\* The row of the INSERT for stock s, years[i], quarters[j]
SampleRow(target_user_id, seed, s, i, j) ==
  LET k == ((s - 1) * Len(SampleYears) + (i - 1)) * Len(SampleQuarters) + j
      stocks == SampleStocks[s]
      jitter == Jitter(seed, k)
  IN [user_id |-> target_user_id,
      shares |-> stocks.shares + jitter.shares,
      purchase_price |-> stocks.purchase + jitter.purchase,
      current_price |-> stocks.current + jitter.current,
      quarter |-> SampleQuarters[j],
      year |-> SampleYears[i],
      created_at |-> k]

\* All rows the three nested loops insert
SampleRows(target_user_id, seed) ==
  {SampleRow(target_user_id, seed, s, i, j) :
     s \in 1..Len(SampleStocks), i \in 1..Len(SampleYears),
     j \in 1..Len(SampleQuarters)}

\* ------------------------------------------------------- row-level policies
\* USING (auth.uid() = user_id) / WITH CHECK (auth.uid() = user_id)
Policy(uid, row) == uid = row.user_id

\* ------------------------------------------------------------------ state
VARIABLES
  table,   \* the rows of portfolio_holdings
  res,     \* the last service call: its arguments, replies and result
  dbop,    \* the last statement the database ran for an authenticated caller
  ui,      \* the useState values of PortfolioDashboard
  runs,    \* the asynchronous flows of the dashboard that await a reply
  dash,    \* the dashboard instance: mounted, unmounted, its subscriptions
  env,     \* import.meta.env: VITE_SUPABASE_URL and VITE_SUPABASE_ANON_KEY
  supabase \* the module lib/supabase: not loaded, failed, or its client

vars == <<table, res, dbop, ui, runs, dash, env, supabase>>

\* ------------------------------------------------------- lib/supabase.ts
StrUrl == <<104, 116, 116, 112, 115>>
StrKey == <<101, 121, 74>>
\* what import.meta.env can hold for a variable: undefined, '' or a value
UrlValues == {None, Some(EmptyString), Some(StrUrl)}
KeyValues == {None, Some(EmptyString), Some(StrKey)}
\* !x of an optional string
Falsy(x) == x = None \/ x = Some(EmptyString)

\* Mutant: start-up fails only when both variables are missing
ConfigMissingBoth(url, key) == Falsy(url) /\ Falsy(key)

\* if (!supabaseUrl || !supabaseAnonKey)
ConfigMissing(url, key) == Falsy(url) \/ Falsy(key)

NotLoaded == [status |-> "not loaded", client |-> None, error |-> None]
\* createClient(supabaseUrl, supabaseAnonKey, ...)
createClient(url, key) == [supabaseUrl |-> url, supabaseKey |-> key]
\* the module after its top-level code has run
Loaded(url, key) ==
  IF ConfigMissing(url, key)
  THEN [status |-> "failed", client |-> None,
        error |-> Some("Missing Supabase environment variables")]
  ELSE [status |-> "ready", client |-> Some(createClient(url, key)),
        error |-> None]
Configured == [url |-> Some(StrUrl), key |-> Some(StrKey)]
\* the client exists: queries and subscriptions can be issued
ClientReady == supabase.status = "ready"
ModuleLoaded ==
  /\ env = Configured
  /\ supabase = Loaded(env.url, env.key)

\* The top-level code of lib/supabase.ts runs, once, when it is first imported
LoadModule ==
  /\ supabase.status = "not loaded"
  /\ supabase' = Loaded(env.url, env.key)
  /\ UNCHANGED <<table, res, dbop, ui, runs, dash, env>>

\* useState initial values (PortfolioDashboard)
InitialUi ==
  [holdings |-> <<>>, summary |-> None, loading |-> TRUE, error |-> None,
   selectedQuarter |-> EmptyString, availableQuarters |-> <<>>,
   isRefreshing |-> FALSE]
\* subscriptions: for every subscription that was created and not
\* unsubscribed, the selectedQuarter of the render whose loadPortfolioData its
\* callback calls
NotMounted == [mounted |-> FALSE, unmounted |-> FALSE, subscriptions |-> <<>>]
DashboardIdle ==
  /\ ui = InitialUi
  /\ runs = <<>>
  /\ dash = NotMounted

NoDbOp == [op |-> "none", caller |-> "", target |-> "", owners |-> {},
           ok |-> TRUE, ret |-> None]

Idle == [op |-> "none", userId |-> "", quarter |-> None, year |-> None,
         replies |-> <<>>, ret |-> Rejected]

\* ---------------------------------------------------- service call actions
\* One call is observed at a time: res holds it until the result is taken.
QuarterArgs == {None, Some(EmptyString)} \cup {Some(q) : q \in Quarters}
YearArgs == {None, Some(0)} \cup {Some(y) : y \in Years}

CallGetUserPortfolio ==
  /\ ClientReady
  /\ res.op = "none"
  /\ \E userId \in Users, quarter \in QuarterArgs, year \in YearArgs,
     outcome \in Outcomes :
    \E rows \in QueryResults(table, UserPortfolioQuery(userId, quarter, year)) :
      LET reply == Reply(outcome, rows)
      IN /\ res' = [op |-> "getUserPortfolio", userId |-> userId,
                    quarter |-> quarter, year |-> year,
                    replies |-> <<reply>>, ret |-> getUserPortfolio(reply)]
         /\ UNCHANGED <<table, dbop, ui, runs, dash, env, supabase>>

CallGetPortfolioSummary ==
  /\ ClientReady
  /\ res.op = "none"
  /\ \E userId \in Users, outcome1 \in Outcomes, outcome2 \in Outcomes :
    \E rows1 \in QueryResults(table, UserPortfolioQuery(userId, None, None)),
       rows2 \in QueryResults(table, UserRowsQuery(userId)) :
      LET reply1 == Reply(outcome1, rows1)
          reply2 == Reply(outcome2, rows2)
      IN /\ res' = [op |-> "getPortfolioSummary", userId |-> userId,
                    quarter |-> None, year |-> None,
                    replies |-> IF reply1.error THEN <<reply1>>
                                ELSE <<reply1, reply2>>,
                    ret |-> getPortfolioSummary(reply1, reply2)]
         /\ UNCHANGED <<table, dbop, ui, runs, dash, env, supabase>>

CallGetQuarterlyPerformance ==
  /\ ClientReady
  /\ res.op = "none"
  /\ \E userId \in Users, outcome \in Outcomes :
    \E rows \in QueryResults(table, UserRowsQuery(userId)) :
      LET reply == Reply(outcome, rows)
      IN /\ res' = [op |-> "getQuarterlyPerformance", userId |-> userId,
                    quarter |-> None, year |-> None,
                    replies |-> <<reply>>, ret |-> getQuarterlyPerformance(reply)]
         /\ UNCHANGED <<table, dbop, ui, runs, dash, env, supabase>>

CallGetAvailableQuarters ==
  /\ ClientReady
  /\ res.op = "none"
  /\ \E userId \in Users, outcome \in Outcomes :
    \E rows \in QueryResults(table, UserRowsQuery(userId)) :
      LET reply == Reply(outcome, rows)
      IN /\ res' = [op |-> "getAvailableQuarters", userId |-> userId,
                    quarter |-> None, year |-> None,
                    replies |-> <<reply>>, ret |-> getAvailableQuarters(reply)]
         /\ UNCHANGED <<table, dbop, ui, runs, dash, env, supabase>>

\* ------------------------------------------------------- database actions
\* The rows a caller may try to write: valid ones and ones that break a
\* CHECK constraint (shares 0, a price 0, year 2019), for either owner.
WriteCandidates ==
  [user_id : Users, shares : {0, 1, 2}, purchase_price : {0, 1},
   current_price : {0, 1}, quarter : {StrQ1}, year : {2019, 2020},
   created_at : {1}]

\* SELECT * FROM portfolio_holdings, as an authenticated caller
RlsSelect ==
  \E uid \in Users :
    LET visible == {row \in table : Policy(uid, row)}
    IN /\ dbop' = [op |-> "select", caller |-> uid, target |-> "",
                   owners |-> {row.user_id : row \in visible},
                   ok |-> TRUE, ret |-> None]
       /\ UNCHANGED <<table, res, ui, runs, dash, env, supabase>>

\* INSERT INTO portfolio_holdings, as an authenticated caller
RlsInsert ==
  /\ Cardinality(table) < MaxRows
  /\ \E uid \in Users, row \in WriteCandidates \ table :
       IF Policy(uid, row) /\ CheckConstraints(row)
       THEN /\ table' = table \cup {row}
            /\ dbop' = [op |-> "insert", caller |-> uid, target |-> "",
                        owners |-> {row.user_id}, ok |-> TRUE, ret |-> None]
            /\ UNCHANGED <<res, ui, runs, dash, env, supabase>>
       ELSE /\ dbop' = [op |-> "insert", caller |-> uid, target |-> "",
                        owners |-> {}, ok |-> FALSE, ret |-> None]
            /\ UNCHANGED <<table, res, ui, runs, dash, env, supabase>>

\* UPDATE portfolio_holdings SET ... WHERE id = <old>, as an authenticated
\* caller: a row the USING clause hides is not updated (and no error is
\* raised); the new row must pass the USING clause again (no WITH CHECK is
\* written, so USING stands in for it) and the CHECK constraints
RlsUpdate ==
  /\ Cardinality(table) =< MaxRows
  /\ \E uid \in Users, old \in table, new \in WriteCandidates \ table :
       IF ~Policy(uid, old)
       THEN /\ dbop' = [op |-> "update", caller |-> uid, target |-> "",
                        owners |-> {}, ok |-> TRUE, ret |-> None]
            /\ UNCHANGED <<table, res, ui, runs, dash, env, supabase>>
       ELSE IF Policy(uid, new) /\ CheckConstraints(new)
       THEN /\ table' = (table \ {old}) \cup {new}
            /\ dbop' = [op |-> "update", caller |-> uid, target |-> "",
                        owners |-> {old.user_id, new.user_id},
                        ok |-> TRUE, ret |-> None]
            /\ UNCHANGED <<res, ui, runs, dash, env, supabase>>
       ELSE /\ dbop' = [op |-> "update", caller |-> uid, target |-> "",
                        owners |-> {}, ok |-> FALSE, ret |-> None]
            /\ UNCHANGED <<table, res, ui, runs, dash, env, supabase>>

\* DELETE FROM portfolio_holdings WHERE id = <old>, as an authenticated caller
RlsDelete ==
  /\ Cardinality(table) =< MaxRows
  /\ \E uid \in Users, old \in table :
       IF Policy(uid, old)
       THEN /\ table' = table \ {old}
            /\ dbop' = [op |-> "delete", caller |-> uid, target |-> "",
                        owners |-> {old.user_id}, ok |-> TRUE, ret |-> None]
            /\ UNCHANGED <<res, ui, runs, dash, env, supabase>>
       ELSE /\ dbop' = [op |-> "delete", caller |-> uid, target |-> "",
                        owners |-> {}, ok |-> TRUE, ret |-> None]
            /\ UNCHANGED <<table, res, ui, runs, dash, env, supabase>>

\* SELECT * FROM get_portfolio_summary(target_user_id): SECURITY DEFINER, so
\* the policies do not apply inside it
RpcGetPortfolioSummary ==
  /\ Cardinality(table) =< MaxRows
  /\ \E uid \in Users, target_user_id \in Users :
    /\ dbop' = [op |-> "get_portfolio_summary", caller |-> uid,
                target |-> target_user_id,
                owners |-> {row.user_id : row \in
                              {r \in table : r.user_id = target_user_id}},
                ok |-> TRUE,
                ret |-> Some(get_portfolio_summary(table, target_user_id))]
    /\ UNCHANGED <<table, res, ui, runs, dash, env, supabase>>

\* SELECT create_sample_portfolio_data(target_user_id): SECURITY DEFINER; one
\* transaction, so a failing INSERT undoes the earlier ones
RpcCreateSamplePortfolioData ==
  /\ Cardinality(table) =< MaxRows
  /\ \E uid \in Users, target_user_id \in Users, seed \in Seeds :
       LET rows == SampleRows(target_user_id, seed)
       IN IF \A row \in rows : CheckConstraints(row)
          THEN /\ table' = table \cup rows
               /\ dbop' = [op |-> "create_sample_portfolio_data",
                           caller |-> uid, target |-> target_user_id,
                           owners |-> {row.user_id : row \in rows},
                           ok |-> TRUE, ret |-> None]
               /\ UNCHANGED <<res, ui, runs, dash, env, supabase>>
          ELSE /\ dbop' = [op |-> "create_sample_portfolio_data",
                           caller |-> uid, target |-> target_user_id,
                           owners |-> {}, ok |-> FALSE, ret |-> None]
               /\ UNCHANGED <<table, res, ui, runs, dash, env, supabase>>

\* The caller takes the settled result; the next call can be observed.
TakeResult ==
  /\ res.op # "none"
  /\ res' = Idle
  /\ dbop' = NoDbOp
  /\ UNCHANGED <<table, ui, runs, dash, env, supabase>>

\* ------------------------------------------------------- the dashboard
MaxInFlight == 2
MaxSubscriptions == 2
DashUser == "u1"
\* the replies the dashboard flows are resumed with
DashOutcomes == {"ok", "error"}

\* String.prototype.split(' '): the pieces between the spaces
RECURSIVE Split(_, _, _)
Split(s, piece, pieces) ==
  IF s = <<>> THEN Append(pieces, piece)
  ELSE IF Head(s) = SP THEN Split(Tail(s), <<>>, Append(pieces, piece))
  ELSE Split(Tail(s), Append(piece, Head(s)), pieces)

\* parseInt: the leading decimal digits, NaN when there is none
IsDigit(c) == c >= 48 /\ c =< 57
RECURSIVE ParseDigits(_, _)
ParseDigits(s, n) ==
  IF s = <<>> \/ ~IsDigit(Head(s)) THEN n
  ELSE ParseDigits(Tail(s), n * 10 + (Head(s) - 48))
ParseInt(s) == IF s = <<>> \/ ~IsDigit(Head(s)) THEN NaN ELSE ParseDigits(s, 0)

\* const [quarter, year] = label.split(' ') and the arguments
\* (quarter, year ? parseInt(year) : undefined) passed to getUserPortfolio
PortfolioArgs(label) ==
  LET pieces == Split(label, <<>>, <<>>)
  IN [quarter |-> Some(pieces[1]),
      year |-> IF Len(pieces) >= 2 /\ pieces[2] # EmptyString
               THEN Some(ParseInt(pieces[2])) ELSE None]

\* const defaultQuarter = quarters[0] || ''
DefaultQuarter(quarters) ==
  IF quarters # <<>> /\ quarters[1] # EmptyString THEN quarters[1]
  ELSE EmptyString

\* A run of loadPortfolioData, suspended at its first await; selected is the
\* selectedQuarter of the render whose closure is running
NewLoad(selected, refresh) ==
  [kind |-> "load", pc |-> "quarters", selectedQuarter |-> selected,
   refresh |-> refresh, quarters |-> <<>>, args |-> None, reply1 |-> None]

\* The getUserPortfolio(...).then(setHoldings).catch(...) of handleQuarterChange
NewQuarterFetch(quarter) ==
  [kind |-> "quarter", pc |-> "holdings", selectedQuarter |-> quarter,
   refresh |-> FALSE, quarters |-> <<>>, args |-> Some(PortfolioArgs(quarter)),
   reply1 |-> None]

\* a state setter: React drops the update once the component is unmounted
SetState(next) == ui' = IF dash.unmounted THEN ui ELSE next

RemoveAt(s, i) == SubSeq(s, 1, i - 1) \o SubSeq(s, i + 1, Len(s))

\* setLoading(true); setError(null) and the first query of loadPortfolioData
BeginLoad(state, selected, refresh) ==
  /\ SetState([state EXCEPT !.loading = TRUE, !.error = None])
  /\ runs' = Append(runs, NewLoad(selected, refresh))

\* Mutant: the catch of loadPortfolioData starts the load again
LoadFailedRetrying(i) ==
  /\ SetState([ui EXCEPT !.error = None, !.loading = TRUE])
  /\ runs' = Append(RemoveAt(runs, i),
                    NewLoad(runs[i].selectedQuarter, runs[i].refresh))

\* catch: setError(...); finally: setLoading(false); and, under handleRefresh,
\* its finally: setIsRefreshing(false)
LoadFailed(i) ==
  /\ SetState([ui EXCEPT
                 !.error = Some("Failed to load portfolio data. Please try again."),
                 !.loading = FALSE,
                 !.isRefreshing = IF runs[i].refresh THEN FALSE ELSE @])
  /\ runs' = RemoveAt(runs, i)

\* What the holdings section renders: the loading screen while loading, else
\* the "No Holdings Found" block when holdings.length === 0, else the table
HoldingsView ==
  IF ui.loading THEN "Loading your portfolio..."
  ELSE IF Len(ui.holdings) = 0 THEN "No Holdings Found"
  ELSE "table"

\* useEffect(() => { if (isAuthenticated && user) { loadPortfolioData();
\* setupRealtimeSubscription(); } }, [isAuthenticated, user])
Mount ==
  /\ ClientReady
  /\ ~dash.mounted /\ ~dash.unmounted
  /\ Len(runs) < MaxInFlight
  /\ BeginLoad(ui, ui.selectedQuarter, FALSE)
  /\ dash' = [dash EXCEPT
                !.mounted = TRUE,
                !.subscriptions = Append(@, ui.selectedQuarter)]
  /\ UNCHANGED <<table, res, dbop, env, supabase>>

\* user (or isAuthenticated) changes while both stay truthy: the effect runs
\* again; it returns nothing, so there is no cleanup and the subscription of
\* the previous run stays
EffectRerun ==
  /\ dash.mounted
  /\ Len(dash.subscriptions) < MaxSubscriptions
  /\ Len(runs) < MaxInFlight
  /\ BeginLoad(ui, ui.selectedQuarter, FALSE)
  /\ dash' = [dash EXCEPT !.subscriptions = Append(@, ui.selectedQuarter)]
  /\ UNCHANGED <<table, res, dbop, env, supabase>>

\* the dashboard unmounts: the effect registered no cleanup, so nothing is
\* unsubscribed; the flows in flight go on
Unmount ==
  /\ dash.mounted
  /\ dash' = [dash EXCEPT !.mounted = FALSE, !.unmounted = TRUE]
  /\ UNCHANGED <<table, res, dbop, ui, runs, env, supabase>>

\* Mutant: a change event that arrives while a reload is running is dropped
RealtimeEventCoalesced ==
  /\ Len(runs) < MaxInFlight
  /\ ~ui.loading
  /\ \E k \in 1..Len(dash.subscriptions) :
       BeginLoad(ui, dash.subscriptions[k], FALSE)
  /\ UNCHANGED <<table, res, dbop, dash, env, supabase>>

\* a change event reaches the callback of a subscription, which calls the
\* loadPortfolioData() of the render its effect ran in
RealtimeEvent ==
  /\ Len(runs) < MaxInFlight
  /\ \E k \in 1..Len(dash.subscriptions) :
       BeginLoad(ui, dash.subscriptions[k], FALSE)
  /\ UNCHANGED <<table, res, dbop, dash, env, supabase>>

\* handleRefresh: the button is rendered when loading is false and enabled
\* when isRefreshing is false
HandleRefresh ==
  /\ dash.mounted
  /\ ~ui.loading
  /\ ~ui.isRefreshing
  /\ Len(runs) < MaxInFlight
  /\ BeginLoad([ui EXCEPT !.isRefreshing = TRUE], ui.selectedQuarter, TRUE)
  /\ UNCHANGED <<table, res, dbop, dash, env, supabase>>

\* handleQuarterChange(quarter): an option of the select, which is rendered
\* when loading is false and availableQuarters is not empty
HandleQuarterChange ==
  /\ dash.mounted
  /\ ~ui.loading
  /\ Len(runs) < MaxInFlight
  /\ \E k \in 1..Len(ui.availableQuarters) :
       LET quarter == ui.availableQuarters[k]
       IN /\ quarter # ui.selectedQuarter
          /\ ui' = [ui EXCEPT !.selectedQuarter = quarter]
          /\ runs' = Append(runs, NewQuarterFetch(quarter))
  /\ UNCHANGED <<table, res, dbop, dash, env, supabase>>

\* loadPortfolioData resumes with the available quarters (lines 34-49)
LoadQuartersReply ==
  \E i \in 1..Len(runs), outcome \in DashOutcomes :
    /\ runs[i].kind = "load" /\ runs[i].pc = "quarters"
    /\ \E rows \in QueryResults(table, UserRowsQuery(DashUser)) :
         LET listing == getAvailableQuarters(Reply(outcome, rows))
         IN IF listing.status = "rejected"
            THEN LoadFailed(i)
            ELSE LET quarters == listing.value
                     defaultQuarter == DefaultQuarter(quarters)
                     selected == runs[i].selectedQuarter
                     label == IF selected # EmptyString THEN selected
                              ELSE defaultQuarter
                 IN /\ SetState([ui EXCEPT
                                !.availableQuarters = quarters,
                                !.selectedQuarter =
                                   IF selected = EmptyString
                                      /\ defaultQuarter # EmptyString
                                   THEN defaultQuarter ELSE @])
                    /\ runs' = [runs EXCEPT ![i] =
                                  [@ EXCEPT !.pc = "holdings",
                                            !.quarters = quarters,
                                            !.args = Some(PortfolioArgs(label))]]
    /\ UNCHANGED <<table, res, dbop, dash, env, supabase>>

\* loadPortfolioData resumes with the holdings of the quarter (lines 45-53)
LoadHoldingsReply ==
  \E i \in 1..Len(runs), outcome \in DashOutcomes :
    /\ runs[i].kind = "load" /\ runs[i].pc = "holdings"
    /\ LET args == runs[i].args[1]
       IN \E rows \in QueryResults(table,
                        UserPortfolioQuery(DashUser, args.quarter, args.year)) :
            LET portfolioData == getUserPortfolio(Reply(outcome, rows))
            IN IF portfolioData.status = "rejected"
               THEN LoadFailed(i)
               ELSE /\ SetState([ui EXCEPT !.holdings = portfolioData.value])
                    /\ runs' = [runs EXCEPT ![i] = [@ EXCEPT !.pc = "summary"]]
    /\ UNCHANGED <<table, res, dbop, dash, env, supabase>>

\* getPortfolioSummary, called by loadPortfolioData, resumes with all holdings
LoadSummaryReply ==
  \E i \in 1..Len(runs), outcome \in DashOutcomes :
    /\ runs[i].kind = "load" /\ runs[i].pc = "summary"
    /\ \E rows \in QueryResults(table, UserPortfolioQuery(DashUser, None, None)) :
         LET reply1 == Reply(outcome, rows)
         IN IF getUserPortfolio(reply1).status = "rejected"
            THEN LoadFailed(i)
            ELSE /\ runs' = [runs EXCEPT ![i] =
                               [@ EXCEPT !.pc = "performance",
                                         !.reply1 = Some(reply1)]]
                 /\ UNCHANGED ui
    /\ UNCHANGED <<table, res, dbop, dash, env, supabase>>

\* getPortfolioSummary resumes with the quarterly performance and returns;
\* loadPortfolioData sets the summary and ends (lines 53-61)
LoadPerformanceReply ==
  \E i \in 1..Len(runs), outcome \in DashOutcomes :
    /\ runs[i].kind = "load" /\ runs[i].pc = "performance"
    /\ \E rows \in QueryResults(table, UserRowsQuery(DashUser)) :
         LET summaryData ==
               getPortfolioSummary(runs[i].reply1[1], Reply(outcome, rows))
         IN IF summaryData.status = "rejected"
            THEN LoadFailed(i)
            ELSE /\ SetState([ui EXCEPT
                             !.summary = Some(summaryData.value),
                             !.loading = FALSE,
                             !.isRefreshing = IF runs[i].refresh THEN FALSE ELSE @])
                 /\ runs' = RemoveAt(runs, i)
    /\ UNCHANGED <<table, res, dbop, dash, env, supabase>>

\* Mutant: the result of a quarter fetch is dropped unless that fetch is the
\* one issued last
QuarterReplyIfLatest ==
  \E i \in 1..Len(runs), outcome \in DashOutcomes :
    /\ runs[i].kind = "quarter"
    /\ LET args == runs[i].args[1]
       IN \E rows \in QueryResults(table,
                        UserPortfolioQuery(DashUser, args.quarter, args.year)) :
            LET fetched == getUserPortfolio(Reply(outcome, rows))
            IN /\ SetState(IF i # Len(runs) THEN ui
                           ELSE IF fetched.status = "rejected"
                           THEN [ui EXCEPT !.error =
                                   Some("Failed to load data for selected quarter")]
                           ELSE [ui EXCEPT !.holdings = fetched.value])
               /\ runs' = RemoveAt(runs, i)
    /\ UNCHANGED <<table, res, dbop, dash, env, supabase>>

\* Mutant: a quarter fetch that succeeds also clears the error
QuarterReplyClearingError ==
  \E i \in 1..Len(runs), outcome \in DashOutcomes :
    /\ runs[i].kind = "quarter"
    /\ LET args == runs[i].args[1]
       IN \E rows \in QueryResults(table,
                        UserPortfolioQuery(DashUser, args.quarter, args.year)) :
            LET fetched == getUserPortfolio(Reply(outcome, rows))
            IN /\ SetState(IF fetched.status = "rejected"
                           THEN [ui EXCEPT !.error =
                                   Some("Failed to load data for selected quarter")]
                           ELSE [ui EXCEPT !.holdings = fetched.value,
                                           !.error = None])
               /\ runs' = RemoveAt(runs, i)
    /\ UNCHANGED <<table, res, dbop, dash, env, supabase>>

\* the promise of handleQuarterChange settles: .then(setHoldings) or .catch
QuarterReply ==
  \E i \in 1..Len(runs), outcome \in DashOutcomes :
    /\ runs[i].kind = "quarter"
    /\ LET args == runs[i].args[1]
       IN \E rows \in QueryResults(table,
                        UserPortfolioQuery(DashUser, args.quarter, args.year)) :
            LET fetched == getUserPortfolio(Reply(outcome, rows))
            IN /\ SetState(IF fetched.status = "rejected"
                           THEN [ui EXCEPT !.error =
                                   Some("Failed to load data for selected quarter")]
                           ELSE [ui EXCEPT !.holdings = fetched.value])
               /\ runs' = RemoveAt(runs, i)
    /\ UNCHANGED <<table, res, dbop, dash, env, supabase>>

\* ------------------------------------------------------- specifications
\* Holdings that differ in owner, shares and prices: the aggregation.
SummaryRows ==
  [user_id : Users, shares : ShareValues, purchase_price : {2},
   current_price : PriceValues, quarter : {StrQ1, StrQ2}, year : {2024},
   created_at : {1}]

InitSummary ==
  /\ table \in TablesUpTo(SummaryRows, MaxRows)
  /\ res = Idle
  /\ dbop = NoDbOp
  /\ DashboardIdle
  /\ ModuleLoaded

NextSummary == CallGetPortfolioSummary \/ TakeResult

SpecSummary == InitSummary /\ [][NextSummary]_vars

\* Holdings of one quarter: the client-side and the server-side aggregation
\* of the same table.
CompareRows ==
  [user_id : Users, shares : ShareValues, purchase_price : {2},
   current_price : PriceValues, quarter : {StrQ1}, year : {2024},
   created_at : {1}]

InitCompare ==
  /\ table \in TablesUpTo(CompareRows, MaxRows)
  /\ res = Idle
  /\ dbop = NoDbOp
  /\ DashboardIdle
  /\ ModuleLoaded

NextCompare ==
  CallGetPortfolioSummary \/ RpcGetPortfolioSummary \/ TakeResult

SpecCompare == InitCompare /\ [][NextCompare]_vars

\* Holdings that differ in quarter, year and gain: grouping and listing.
QuarterRows ==
  [user_id : Users, shares : {1}, purchase_price : {1},
   current_price : PriceValues, quarter : Quarters, year : Years,
   created_at : {1}]

InitQuarters ==
  /\ table \in TablesUpTo(QuarterRows, MaxRows)
  /\ res = Idle
  /\ dbop = NoDbOp
  /\ DashboardIdle
  /\ ModuleLoaded

NextQuarters ==
  CallGetQuarterlyPerformance \/ CallGetAvailableQuarters \/ TakeResult

SpecQuarters == InitQuarters /\ [][NextQuarters]_vars

\* Holdings that differ in owner, quarter, year and creation time: fetching.
FetchRows ==
  [user_id : Users, shares : {1}, purchase_price : {1}, current_price : {1},
   quarter : {StrQ1, StrQ2}, year : Years, created_at : TimeValues]

InitFetch ==
  /\ table \in TablesUpTo(FetchRows, MaxRows)
  /\ res = Idle
  /\ dbop = NoDbOp
  /\ DashboardIdle
  /\ ModuleLoaded

NextFetch == CallGetUserPortfolio \/ TakeResult

SpecFetch == InitFetch /\ [][NextFetch]_vars

\* The dashboard of one user over a table that holds two quarters.
DashRows ==
  { [user_id |-> DashUser, shares |-> 1, purchase_price |-> 2,
     current_price |-> 3, quarter |-> StrQ1, year |-> 2024, created_at |-> 1],
    [user_id |-> DashUser, shares |-> 2, purchase_price |-> 2,
     current_price |-> 1, quarter |-> StrQ2, year |-> 2024, created_at |-> 2] }
OtherUsersRow ==
  [user_id |-> "u2", shares |-> 1, purchase_price |-> 2, current_price |-> 1,
   quarter |-> StrQ1, year |-> 2024, created_at |-> 1]

InitDash ==
  /\ table \in {T \cup {OtherUsersRow} : T \in TablesUpTo(DashRows, MaxRows)}
  /\ res = Idle
  /\ dbop = NoDbOp
  /\ DashboardIdle
  /\ ModuleLoaded

NextDash ==
  \/ Mount
  \/ RealtimeEvent
  \/ HandleRefresh
  \/ HandleQuarterChange
  \/ LoadQuartersReply
  \/ LoadHoldingsReply
  \/ LoadSummaryReply
  \/ LoadPerformanceReply
  \/ QuarterReply

SpecDash == InitDash /\ [][NextDash]_vars

\* Start-up under every configuration, then the first call and the mount.
BootRows ==
  [user_id : Users, shares : {1}, purchase_price : {1}, current_price : {1},
   quarter : {StrQ1}, year : {2024}, created_at : {1}]

InitBoot ==
  /\ table \in TablesUpTo(BootRows, MaxRows)
  /\ res = Idle
  /\ dbop = NoDbOp
  /\ DashboardIdle
  /\ env \in [url : UrlValues, key : KeyValues]
  /\ supabase = NotLoaded

NextBoot == LoadModule \/ CallGetUserPortfolio \/ TakeResult \/ Mount

SpecBoot == InitBoot /\ [][NextBoot]_vars

\* The life of a dashboard instance: mount, effect re-runs, change events,
\* reloads and the unmount, over one table.
InitLifecycle ==
  /\ table = DashRows \cup {OtherUsersRow}
  /\ res = Idle
  /\ dbop = NoDbOp
  /\ DashboardIdle
  /\ ModuleLoaded

NextLifecycle ==
  \/ Mount
  \/ EffectRerun
  \/ Unmount
  \/ RealtimeEvent
  \/ LoadQuartersReply
  \/ LoadHoldingsReply
  \/ LoadSummaryReply
  \/ LoadPerformanceReply

SpecLifecycle == InitLifecycle /\ [][NextLifecycle]_vars

\* The table under the statements authenticated callers can run.
InitDb ==
  /\ table = {}
  /\ res = Idle
  /\ dbop = NoDbOp
  /\ DashboardIdle
  /\ ModuleLoaded

NextDb ==
  \/ RlsSelect
  \/ RlsInsert
  \/ RlsUpdate
  \/ RlsDelete
  \/ RpcGetPortfolioSummary
  \/ RpcCreateSamplePortfolioData

SpecDb == InitDb /\ [][NextDb]_vars
\* ------------------------------------------------------------------ claims
\* What the observed call's k-th query was answered with
ReplyRows(k) ==
  IF res.replies[k].data = None THEN <<>> ELSE res.replies[k].data[1]
ListedRows(k) == {ReplyRows(k)[i] : i \in 1..Len(ReplyRows(k))}
OwnRows(userId) == {row \in table : row.user_id = userId}
SummaryReturned == res.op = "getPortfolioSummary" /\ res.ret.status = "resolved"

\* C1: for every list of holdings the fetch returns, getPortfolioSummary
\* returns totalValue = the sum of shares * current_price, totalGainLoss =
\* that sum minus the sum of shares * purchase_price, totalShares = the sum of
\* shares; a successful fetch lists all holdings of the user, whatever their
\* quarter and year.
C1_SummaryTotals ==
  SummaryReturned =>
    LET listed == ListedRows(1)
        summary == res.ret.value
    IN /\ Len(ReplyRows(1)) = Cardinality(listed)
       /\ summary.totalValue = SumSet(listed, "value")
       /\ summary.totalGainLoss = SumSet(listed, "value") - SumSet(listed, "cost")
       /\ summary.totalShares = SumSet(listed, "shares")
       /\ (res.replies[1].data # None => listed = OwnRows(res.userId))

\* C1 witness: a summary over three holdings of two quarters, with somebody
\* else's holding absent from the list and a gain that is not zero
C1_Witness ==
  /\ SummaryReturned
  /\ Len(ReplyRows(1)) >= 2
  /\ \E a, b \in ListedRows(1) : a.quarter # b.quarter
  /\ table # OwnRows(res.userId)
  /\ res.ret.value.totalGainLoss # 0

\* C2: totalGainLossPercent is exactly 0 when the total cost is 0 and
\* (totalValue - totalCost) / totalCost * 100 otherwise; an empty list gives
\* a returned summary of zeros.
C2_SummaryPercent ==
  SummaryReturned =>
    LET listed == ListedRows(1)
        value == SumSet(listed, "value")
        cost == SumSet(listed, "cost")
        summary == res.ret.value
        percent == summary.totalGainLossPercent
    IN /\ percent.den > 0
       /\ Gcd(Abs(percent.num), percent.den) = 1
       /\ (cost = 0 => percent = Zero)
       /\ (cost # 0 => percent.num * cost = (value - cost) * 100 * percent.den)
       /\ (listed = {} =>
             /\ summary.totalValue = 0
             /\ summary.totalGainLoss = 0
             /\ summary.totalGainLossPercent = Zero
             /\ summary.totalShares = 0)
       /\ (res.op = "getPortfolioSummary" /\ ~res.replies[1].error
             => res.ret.status = "resolved")

\* C2 witnesses: a summary of an empty list, and one whose percent is a
\* proper fraction (a loss of 50/3 percent)
C2_Witness ==
  /\ SummaryReturned
  /\ res.replies[1].data = Some(<<>>)
  /\ res.ret.value.totalGainLossPercent = Zero
C2_WitnessFraction ==
  /\ SummaryReturned
  /\ res.ret.value.totalGainLossPercent = [num |-> -50, den |-> 3]

\* C5 as stated: whenever a remote call made on behalf of getPortfolioSummary
\* fails, getPortfolioSummary is rejected and returns no summary.
C5_AnyFailureRejects ==
  (res.op = "getPortfolioSummary" /\
     \E k \in 1..Len(res.replies) : res.replies[k].error)
    => res.ret.status = "rejected"

\* C5 amended: when the holdings fetch fails getPortfolioSummary is rejected
\* and returns no summary; when only the quarterly-performance query fails the
\* summary is returned with its totals and an empty quarterlyPerformance.
C5_FetchFailureRejects ==
  res.op = "getPortfolioSummary" =>
    /\ (res.replies[1].error =>
          /\ res.ret.status = "rejected"
          /\ res.ret.value = None
          /\ Len(res.replies) = 1)
    /\ ((~res.replies[1].error /\ res.replies[2].error) =>
          /\ res.ret.status = "resolved"
          /\ res.ret.value.quarterlyPerformance = <<>>
          /\ res.ret.value.totalShares = SumSet(ListedRows(1), "shares"))

\* C5 witnesses: a rejected summary after a failed fetch of a user who has
\* holdings, and a returned one after a failed quarterly query
C5_Witness ==
  /\ res.op = "getPortfolioSummary"
  /\ res.replies[1].error
  /\ res.ret.status = "rejected"
  /\ OwnRows(res.userId) # {}
C5_WitnessQuarterly ==
  /\ SummaryReturned
  /\ res.replies[2].error
  /\ res.ret.value.totalShares > 0

\* C8 as stated: for every set of a user's holdings, the empty one included,
\* get_portfolio_summary and getPortfolioSummary give identical total value,
\* gain/loss, gain/loss percent and total shares, and the same fields, total
\* cost among them.
C8_ServerEqualsClient ==
  (/\ SummaryReturned
   /\ res.replies[1].data # None
   /\ dbop.op = "get_portfolio_summary"
   /\ dbop.target = res.userId)
    => LET client == res.ret.value
           server == dbop.ret[1]
       IN /\ server.total_value = Some(client.totalValue)
          /\ server.total_gain_loss = Some(client.totalGainLoss)
          /\ server.total_gain_loss_percent = Some(client.totalGainLossPercent)
          /\ server.total_shares = Some(client.totalShares)
          /\ ("total_cost" \in DOMAIN server <=> "totalCost" \in DOMAIN client)

\* The composite labels of a set of rows, and the rows of one label
LabelsOf(rows) == {QuarterKey(row.quarter, row.year) : row \in rows}
RowsOfLabel(rows, label) ==
  {row \in rows : QuarterKey(row.quarter, row.year) = label}
\* s is strictly descending in the lexicographic order of its strings
LexDescending(s) ==
  \A i \in 1..Len(s), j \in 1..Len(s) : i < j => SeqCompare(s[i], s[j]) = 1

\* C3 as stated: getQuarterlyPerformance returns one entry per distinct
\* (quarter, year) pair of the list, keyed "<quarter> <year>", whose
\* performance is the gain/loss percent of the holdings of that pair alone,
\* the entries in strictly descending lexicographic order of the label; an
\* empty list gives an empty result.
C3_QuarterlyPerformance ==
  (res.op = "getQuarterlyPerformance" /\ ~res.replies[1].error) =>
    LET rows == ListedRows(1)
        out == res.ret.value
        keys == [i \in 1..Len(out) |-> out[i].quarter]
    IN /\ res.ret.status = "resolved"
       /\ {keys[i] : i \in 1..Len(out)} = LabelsOf(rows)
       /\ Len(out) = Cardinality({<<row.quarter, row.year>> : row \in rows})
       /\ \A i \in 1..Len(out) :
            LET group == RowsOfLabel(rows, keys[i])
                value == SumSet(group, "value")
                cost == SumSet(group, "cost")
                percent == out[i].performance
            IN /\ percent.den > 0
               /\ (cost = 0 => percent = Zero)
               /\ (cost # 0 =>
                     percent.num * cost = (value - cost) * 100 * percent.den)
       /\ LexDescending(keys)
       /\ (rows = {} => out = <<>>)

\* C3 without its ordering: what does hold of the entries
C3_GroupsAndPerformance ==
  (res.op = "getQuarterlyPerformance" /\ ~res.replies[1].error) =>
    LET rows == ListedRows(1)
        out == res.ret.value
    IN /\ {out[i].quarter : i \in 1..Len(out)} = LabelsOf(rows)
       /\ Len(out) = Cardinality(LabelsOf(rows))
       /\ \A i \in 1..Len(out), j \in 1..Len(out) :
            i < j => LocaleCompare(out[i].quarter, out[j].quarter) = 1

\* C4: getAvailableQuarters returns every distinct label "<quarter> <year>"
\* of the user's holdings exactly once, in descending order of the label; its
\* first element is the default quarter of the dashboard.
C4_AvailableQuarters ==
  (res.op = "getAvailableQuarters" /\ res.replies[1].data # None) =>
    LET out == res.ret.value
    IN /\ res.ret.status = "resolved"
       /\ {out[i] : i \in 1..Len(out)} = LabelsOf(OwnRows(res.userId))
       /\ Len(out) = Cardinality(LabelsOf(OwnRows(res.userId)))
       /\ LexDescending(out)
       /\ out # <<>> =>
            /\ DefaultQuarter(out) = out[1]
            /\ \A i \in 1..Len(out) :
                 CodeUnitCompare(out[i], DefaultQuarter(out)) =< 0

\* C4 witness: three holdings, two of them of one quarter, listed as two
\* labels
C4_Witness ==
  /\ res.op = "getAvailableQuarters"
  /\ Cardinality(OwnRows(res.userId)) = 3
  /\ Len(res.ret.value) = 2

\* C7 as stated: getUserPortfolio returns exactly the holdings of userId that
\* match every filter that was supplied, most recently created first.
C7_SuppliedFiltersApplied ==
  (res.op = "getUserPortfolio" /\ res.replies[1].data # None) =>
    LET out == res.ret.value
    IN /\ res.ret.status = "resolved"
       /\ {out[i] : i \in 1..Len(out)} =
            {row \in table :
               /\ row.user_id = res.userId
               /\ (res.quarter # None => row.quarter = res.quarter[1])
               /\ (res.year # None => row.year = res.year[1])}
       /\ \A i \in 1..Len(out), j \in 1..Len(out) :
            i < j => (out[i] # out[j] /\ out[i].created_at >= out[j].created_at)

\* C7 amended: a quarter is applied as a filter when it is a non-empty
\* string and a year when it is a number other than 0 (and NaN); an empty
\* quarter or a year of 0 is treated as not supplied.
C7_TruthyFiltersApplied ==
  (res.op = "getUserPortfolio" /\ res.replies[1].data # None) =>
    LET out == res.ret.value
        byQuarter == res.quarter # None /\ Len(res.quarter[1]) > 0
        byYear == res.year # None /\ res.year[1] > 0
    IN /\ res.ret.status = "resolved"
       /\ {out[i] : i \in 1..Len(out)} =
            {row \in table :
               /\ row.user_id = res.userId
               /\ (byQuarter => row.quarter = res.quarter[1])
               /\ (byYear => row.year = res.year[1])}
       /\ \A i \in 1..Len(out), j \in 1..Len(out) :
            i < j => (out[i] # out[j] /\ out[i].created_at >= out[j].created_at)

\* C7 witness: both filters given, one holding returned, and the table holds
\* the user's holdings of another quarter, of another year, and another
\* user's
C7_Witness ==
  /\ res.op = "getUserPortfolio"
  /\ res.quarter # None /\ res.quarter # Some(EmptyString)
  /\ res.year # None /\ res.year # Some(0)
  /\ Len(res.ret.value) = 1
  /\ Cardinality(table) = 3
  /\ \E row \in table : row.user_id = res.userId /\ row.quarter # res.quarter[1]
\* C9 as stated: no statement the database runs for an authenticated caller
\* (select, insert, update, delete under the policies, get_portfolio_summary,
\* create_sample_portfolio_data) reads or writes a row owned by another user.
C9_NoCrossUserAccess == dbop.owners \subseteq {dbop.caller}

\* C10: every row of the table has shares > 0, purchase_price > 0,
\* current_price > 0 and year >= 2020, after any inserts and updates and
\* after create_sample_portfolio_data with any variation of shares and
\* prices; that function never fails on a constraint, and a statement that
\* was rejected wrote nothing.
C10_RowsPositive ==
  /\ \A row \in table :
       /\ row.shares > 0
       /\ row.purchase_price > 0
       /\ row.current_price > 0
       /\ row.year >= 2020
  /\ (dbop.op = "create_sample_portfolio_data" => dbop.ok)
  /\ (~dbop.ok => dbop.owners = {})

\* C10 witness: the sample rows are in the table, the one with the fewest
\* shares (25 - 10) among them, next to a row a user inserted
C10_Witness ==
  /\ dbop.op = "create_sample_portfolio_data"
  /\ \E row \in table : row.shares = 15
  /\ \E row \in table : row.year = 2020
  /\ Cardinality(table) > 96

\* C10: a rejected insert or update leaves the table as it was
C10_RejectedWritesNothing == [][~dbop'.ok => table' = table]_vars
\* The loadPortfolioData runs of rs that await the reply of the given query
LoadsAt(rs, pc) ==
  Cardinality({i \in 1..Len(rs) : rs[i].kind = "load" /\ rs[i].pc = pc})

\* What the two degrading methods return for every reply the remote can give
\* to the dashboard's user
C6_NeverRejected ==
  \A rows \in QueryResults(table, UserRowsQuery(DashUser)), outcome \in Outcomes :
    LET reply == Reply(outcome, rows)
    IN /\ getQuarterlyPerformance(reply).status = "resolved"
       /\ getAvailableQuarters(reply).status = "resolved"
       /\ reply.error =>
            /\ getQuarterlyPerformance(reply).value = <<>>
            /\ getAvailableQuarters(reply).value = <<>>

\* A load that leaves its quarter listing is at its holdings fetch, and a load
\* that leaves its quarterly-performance query has set the summary, whatever
\* the reply was; neither step sets the error
C6_LoadStep ==
  /\ LoadsAt(runs', "quarters") < LoadsAt(runs, "quarters") =>
       /\ LoadsAt(runs', "holdings") = LoadsAt(runs, "holdings") + 1
       /\ Len(runs') = Len(runs)
       /\ ui'.error = ui.error
  /\ LoadsAt(runs', "performance") < LoadsAt(runs, "performance") =>
       /\ ui'.summary # None
       /\ ui'.holdings = ui.holdings
       /\ ui'.error = ui.error
       /\ ~ui'.loading

\* C6: getQuarterlyPerformance and getAvailableQuarters always resolve, to
\* the empty list when their query fails, so a load whose quarter listing or
\* quarterly-performance query fails still goes on to fetch the holdings and
\* to set the summary, without an error.
C6_DegradeToEmpty == [](C6_NeverRejected) /\ [][C6_LoadStep]_vars

\* C6 witness: both the listing and the quarterly-performance query of a load
\* failed, and the dashboard shows all holdings and a summary, without error
C6_Witness ==
  /\ runs = <<>>
  /\ OwnRows(DashUser) # {}
  /\ ui.availableQuarters = <<>>
  /\ Len(ui.holdings) = Cardinality(OwnRows(DashUser))
  /\ ui.summary # None
  /\ ui.summary[1].quarterlyPerformance = <<>>
  /\ ui.error = None
  /\ ~ui.loading

\* ---- C11
LoadError == Some("Failed to load portfolio data. Please try again.")
NumLoads(rs) == Cardinality({i \in 1..Len(rs) : rs[i].kind = "load"})
\* A step in which a run of loadPortfolioData ends in its catch: the run is
\* gone and it was not at its last query, which never fails it
LoadFails ==
  /\ NumLoads(runs') < NumLoads(runs)
  /\ LoadsAt(runs', "performance") = LoadsAt(runs, "performance")
\* A step in which a flow issues its first query
FetchStarts ==
  \/ Len(runs') > Len(runs)
  \/ LoadsAt(runs', "quarters") > LoadsAt(runs, "quarters")
Newest == runs'[Len(runs')]
StartedByMount == ~dash.mounted /\ dash'.mounted
StartedByRefresh ==
  /\ dash' = dash /\ ~ui.loading /\ ~ui.isRefreshing /\ ui'.isRefreshing
  /\ Newest = NewLoad(ui.selectedQuarter, TRUE)
StartedByQuarterChange ==
  /\ dash' = dash /\ ~ui.loading
  /\ ui'.selectedQuarter # ui.selectedQuarter
  /\ Newest = NewQuarterFetch(ui'.selectedQuarter)
StartedByChangeEvent ==
  /\ dash' = dash
  /\ ui'.isRefreshing = ui.isRefreshing
  /\ \E k \in 1..Len(dash.subscriptions) :
       Newest = NewLoad(dash.subscriptions[k], FALSE)

C11_Step ==
  /\ LoadFails =>
       /\ ui'.error = LoadError
       /\ ~ui'.loading
       /\ Len(runs') = Len(runs) - 1
       /\ ~FetchStarts
  /\ FetchStarts =>
       /\ Len(runs') = Len(runs) + 1
       /\ SubSeq(runs', 1, Len(runs)) = runs
       /\ \/ StartedByMount
          \/ StartedByRefresh
          \/ StartedByQuarterChange
          \/ StartedByChangeEvent

C12_EmptyIsNoError ==
  \A rows \in QueryResults(table, UserPortfolioQuery(DashUser, None, None)) :
    /\ getUserPortfolio(Reply("null", rows)) = Resolved(<<>>)
    /\ getUserPortfolio(Reply("ok", rows)) = Resolved(rows)
    /\ getUserPortfolio(Reply("ok", <<>>)) = Resolved(<<>>)

\* A load whose holdings query matches no row and succeeds sets holdings to
\* the empty list and leaves the error as it was
C12_Step ==
  \A i \in 1..Len(runs) :
    (/\ runs[i].kind = "load" /\ runs[i].pc = "holdings"
     /\ {row \in table :
           Matches(row, UserPortfolioQuery(DashUser, runs[i].args[1].quarter,
                                           runs[i].args[1].year))} = {}
     /\ runs' = [runs EXCEPT ![i] = [@ EXCEPT !.pc = "summary"]])
    => (ui'.holdings = <<>> /\ ui'.error = ui.error)

\* Once the loads of a user without holdings are over and none has failed,
\* the "No Holdings Found" block is rendered
C12_View ==
  (dash.mounted /\ runs = <<>> /\ OwnRows(DashUser) = {} /\ ui.error = None) =>
    (ui.holdings = <<>> /\ HoldingsView = "No Holdings Found")

\* C12: a fetch that succeeds with no rows (or with null data) is not an
\* error: getUserPortfolio resolves to the empty list, the load sets holdings
\* to the empty list and leaves error null, and the dashboard renders "No
\* Holdings Found" instead of the table.
C12_EmptyResult == [](C12_EmptyIsNoError /\ C12_View) /\ [][C12_Step]_vars

\* C12 witness: the load of a user without holdings has ended; holdings are
\* empty, error is null and "No Holdings Found" is rendered
C12_Witness ==
  /\ dash.mounted
  /\ runs = <<>>
  /\ OwnRows(DashUser) = {}
  /\ ui.holdings = <<>>
  /\ ui.summary # None
  /\ ui.error = None
  /\ HoldingsView = "No Holdings Found"

\* ---- C13
\* C13: when the URL or the key is missing (undefined or empty), the module
\* fails with an error and creates no client, and no query or subscription is
\* ever issued; when both are present it creates the client from them.
C13_StartUp ==
  /\ supabase.status # "not loaded" =>
       /\ (Falsy(env.url) \/ Falsy(env.key)) =>
            /\ supabase.status = "failed"
            /\ supabase.error # None
            /\ supabase.client = None
       /\ (~Falsy(env.url) /\ ~Falsy(env.key)) =>
            /\ supabase.status = "ready"
            /\ supabase.error = None
            /\ supabase.client = Some(createClient(env.url, env.key))
  /\ supabase.status # "ready" =>
       /\ res.op = "none"
       /\ runs = <<>>
       /\ dash.subscriptions = <<>>

\* C13 witness: the URL is set, the key is not, and start-up has failed
C13_Witness ==
  /\ env.url = Some(StrUrl)
  /\ Falsy(env.key)
  /\ supabase.status = "failed"

\* C13 witness of the other case: both are set and a query has been issued
C13_WitnessReady ==
  /\ supabase.status = "ready"
  /\ res.op = "getUserPortfolio"

\* ---- C14
\* the order in which a run of loadPortfolioData issues its queries
NextQuery(pc) ==
  CASE pc = "quarters" -> "holdings"
    [] pc = "holdings" -> "summary"
    [] pc = "summary" -> "performance"
    [] OTHER -> "none"

\* While the subscription exists a change event can be delivered in every
\* state, whatever is loading or in flight (up to the bound of the model)
C14_NeverDropped ==
  (dash.subscriptions # <<>> /\ Len(runs) < MaxInFlight) => ENABLED RealtimeEvent

\* Each delivery adds exactly one run of loadPortfolioData, at its quarter
\* listing, and leaves the runs in flight as they are; every run goes through
\* its queries in order
C14_Step ==
  /\ RealtimeEvent =>
       /\ Len(runs') = Len(runs) + 1
       /\ SubSeq(runs', 1, Len(runs)) = runs
       /\ runs'[Len(runs')].kind = "load"
       /\ runs'[Len(runs')].pc = "quarters"
  /\ Len(runs') = Len(runs) =>
       \A i \in 1..Len(runs) :
         runs'[i].pc # runs[i].pc =>
           (runs[i].kind = "load" /\ runs'[i].pc = NextQuery(runs[i].pc))

\* C14: every change event delivered to the subscription callback starts one
\* full reload (listing, holdings, summary); events are neither debounced nor
\* coalesced, also while an earlier reload is in flight.
C14_EveryEventReloads == [](C14_NeverDropped) /\ [][C14_Step]_vars

\* C14 witness: after the first load has ended, two events have been
\* delivered in succession and two reloads are in flight
C14_Witness ==
  /\ ui.summary # None
  /\ dash.subscriptions # <<>>
  /\ runs = <<NewLoad(dash.subscriptions[1], FALSE),
              NewLoad(dash.subscriptions[1], FALSE)>>

\* ---- C15
QuarterError == Some("Failed to load data for selected quarter")
\* the lists a successful holdings fetch of the run can resolve to
HoldingsOf(run) ==
  QueryResults(table, UserPortfolioQuery(DashUser, run.args[1].quarter,
                                         run.args[1].year))
\* the holdings of a label of the select
HoldingsOfLabel(label) ==
  QueryResults(table, UserPortfolioQuery(DashUser, PortfolioArgs(label).quarter,
                                         PortfolioArgs(label).year))

\* A holdings fetch that completes is applied at once, wherever it stands
\* among the flows in flight (runs is in order of issue): a load that goes on
\* to its summary has set holdings to its own result, and a quarter fetch
\* that ends has set holdings to its own result or set the error
C15_Step ==
  \A i \in 1..Len(runs) :
    /\ (/\ runs[i].kind = "load" /\ runs[i].pc = "holdings"
        /\ runs' = [runs EXCEPT ![i] = [@ EXCEPT !.pc = "summary"]])
       => ui'.holdings \in HoldingsOf(runs[i])
    /\ (runs[i].kind = "quarter" /\ runs' = RemoveAt(runs, i))
       => \/ ui'.holdings \in HoldingsOf(runs[i]) /\ ui'.error = ui.error
          \/ ui'.holdings = ui.holdings /\ ui'.error = QuarterError

\* C15: overlapping holdings fetches are applied in completion order, each
\* overwriting holdings with its own result whatever was issued after it;
\* so holdings can end up as the result of an earlier request (the witness).
C15_CompletionOrder == [][C15_Step]_vars

\* C15 witness: nothing is in flight and nothing has failed, the quarter
\* requested last is the selected one, and holdings are those of another
\* quarter, whose fetch was issued earlier and completed later
C15_Witness ==
  /\ runs = <<>>
  /\ ui.error = None
  /\ ~ui.loading
  /\ ui.selectedQuarter # EmptyString
  /\ ui.holdings # <<>>
  /\ ui.holdings \notin HoldingsOfLabel(ui.selectedQuarter)
  /\ \E k \in 1..Len(ui.availableQuarters) :
       ui.holdings \in HoldingsOfLabel(ui.availableQuarters[k])

\* ---- C16
\* C16 as stated: at any time at most one subscription of the dashboard is
\* active, and none once the dashboard is unmounted (so no callback fires
\* after the unmount).
C16_AtMostOneSubscription ==
  /\ Len(dash.subscriptions) =< 1
  /\ dash.unmounted => dash.subscriptions = <<>>

\* ---- C17
\* a step in which handleQuarterChange runs
QuarterChanged ==
  /\ Len(runs') = Len(runs) + 1
  /\ runs'[Len(runs')] = NewQuarterFetch(ui'.selectedQuarter)
\* a step in which a run of loadPortfolioData ends with its summary set and
\* leaves nothing in flight
LastLoadSucceeds ==
  /\ LoadsAt(runs, "performance") = 1
  /\ runs' = <<>>

\* C17 as stated: once a quarter is selected, only the user changes the
\* selection (no reload does), and a reload that completes successfully with
\* nothing else in flight leaves the holdings of the selected quarter.
C17_ReloadKeepsSelection ==
  [][/\ (ui.selectedQuarter # EmptyString
          /\ ui'.selectedQuarter # ui.selectedQuarter) => QuarterChanged
     /\ (ui.selectedQuarter # EmptyString /\ LastLoadSucceeds) =>
          /\ ui'.selectedQuarter = ui.selectedQuarter
          /\ ui'.holdings \in HoldingsOfLabel(ui.selectedQuarter)]_vars

\* ---- C18
\* What the two steps of handleQuarterChange change of the dashboard state
C18_Step ==
  /\ HandleQuarterChange =>
       /\ ui'.selectedQuarter # ui.selectedQuarter
       /\ ui' = [ui EXCEPT !.selectedQuarter = ui'.selectedQuarter]
  /\ \A i \in 1..Len(runs) :
       (runs[i].kind = "quarter" /\ runs' = RemoveAt(runs, i)) =>
         \/ /\ ui'.holdings \in HoldingsOf(runs[i])
            /\ ui' = [ui EXCEPT !.holdings = ui'.holdings]
         \/ ui' = [ui EXCEPT !.error = QuarterError]

\* C18: handleQuarterChange changes only selectedQuarter and, when its fetch
\* completes, only holdings (success: the fetched list) or only error
\* (failure); summary, availableQuarters, loading and isRefreshing stay as
\* they are, and so do holdings on failure.
C18_QuarterChangeFrame == [][C18_Step]_vars

\* C18 witness: a quarter fetch has failed after a successful load; the
\* error is set, holdings and summary are those of the load
C18_Witness ==
  /\ runs = <<>>
  /\ ui.error = QuarterError
  /\ ui.holdings # <<>>
  /\ ui.holdings \notin HoldingsOfLabel(ui.selectedQuarter)
  /\ ui.summary # None
  /\ ~ui.loading

\* ---- C19
\* loading is true while a run of loadPortfolioData is in flight and false
\* when nothing is in flight
C19_Loading ==
  dash.mounted =>
    /\ NumLoads(runs) > 0 => ui.loading
    /\ runs = <<>> => ~ui.loading

\* when a load completes and leaves nothing in flight, error is non-null
\* exactly when that load failed
C19_Step ==
  /\ LastLoadSucceeds => ui'.error = None
  /\ (LoadFails /\ runs' = <<>>) => ui'.error # None

\* C19 as stated: once the first load has started, loading is true whenever
\* a loadPortfolioData run is in flight; whenever nothing is in flight
\* loading is false and error is non-null exactly when the fetch that
\* completed last failed.
C19_ConsistentTriState == [](C19_Loading) /\ [][C19_Step]_vars
====
